---- MODULE Spec2Model ----
(***************************************************************************)
(* Model of skills/nestjs-code-reviewer/validate.py: the command-line      *)
(* entry point main() and the validator validate_skill().  Findings are    *)
(* the strings the program builds; the file system, the command line and   *)
(* the manifest text are the inputs.                                       *)
(***************************************************************************)
EXTENDS Integers, Sequences, FiniteSets, TLC

(***************************************************************************)
(* Bounds of the model.                                                    *)
(***************************************************************************)
MaxBodyLen == 101      \* longest run of body text in a manifest
MaxDescLen == 201      \* longest description in a manifest
MaxChildren == 1       \* most entries inside one convention directory

(***************************************************************************)
(* Program constants.                                                      *)
(***************************************************************************)
MaxSplit == 2          \* content.split('---', 2)
MinParts == 3          \* len(parts) < 3
DescLimit == 200       \* len(desc) > 200
BodyLimit == 100       \* len(markdown_content) < 100
RuleWidth == 60        \* "=" * 60

(***************************************************************************)
(* Python string primitives, on TLA+ strings.                              *)
(***************************************************************************)
At(s, i) == SubSeq(s, i, i)

StartsWith(s, p) == Len(s) >= Len(p) /\ SubSeq(s, 1, Len(p)) = p

EndsWith(s, p) == Len(s) >= Len(p) /\ SubSeq(s, Len(s) - Len(p) + 1, Len(s)) = p

\* str.find: the least index >= from at which sub occurs, 0 when there is none.
Find(s, sub, from) ==
    LET hits == {i \in from..(Len(s) - Len(sub) + 1) : SubSeq(s, i, i + Len(sub) - 1) = sub}
    IN  IF hits = {} THEN 0 ELSE CHOOSE i \in hits : \A j \in hits : i <= j

\* the `in` operator on two strings
Contains(s, sub) == Find(s, sub, 1) # 0

Whitespace == {" ", "\n", "\t", "\r"}

\* str.strip()
Strip(s) ==
    LET solid == {i \in 1..Len(s) : At(s, i) \notin Whitespace}
    IN  IF solid = {} THEN ""
        ELSE LET lo == CHOOSE i \in solid : \A j \in solid : i <= j
                 hi == CHOOSE i \in solid : \A j \in solid : i >= j
             IN  SubSeq(s, lo, hi)

RECURSIVE Split(_, _, _)
\* str.split(sep, maxsplit)
Split(s, sep, maxsplit) ==
    LET i == Find(s, sep, 1)
    IN  IF maxsplit = 0 \/ i = 0 THEN <<s>>
        ELSE <<SubSeq(s, 1, i - 1)>> \o Split(SubSeq(s, i + Len(sep), Len(s)), sep, maxsplit - 1)

RECURSIVE Rep(_, _)
\* s * n
Rep(s, n) ==
    IF n <= 0 THEN ""
    ELSE LET half == Rep(s, n \div 2)
         IN  half \o half \o (IF n % 2 = 1 THEN s ELSE "")

Lower == "abcdefghijklmnopqrstuvwxyz"
Upper == "ABCDEFGHIJKLMNOPQRSTUVWXYZ"
Digits == "0123456789"

NameChars == {At(Lower, i) : i \in 1..Len(Lower)} \cup {At(Digits, i) : i \in 1..Len(Digits)} \cup {"-"}

\* re.match(r'^[a-z0-9-]+$', name) on a string: '$' also matches before one
\* trailing newline.
ReMatchName(name) ==
    LET core == IF EndsWith(name, "\n") THEN SubSeq(name, 1, Len(name) - 1) ELSE name
    IN  Len(core) >= 1 /\ \A i \in 1..Len(core) : At(core, i) \in NameChars

ToUpper(c) == LET i == Find(Lower, c, 1) IN IF i = 0 THEN c ELSE At(Upper, i)
ToLower(c) == LET i == Find(Upper, c, 1) IN IF i = 0 THEN c ELSE At(Lower, i)

RECURSIVE LowerAll(_)
LowerAll(s) == IF s = "" THEN "" ELSE ToLower(At(s, 1)) \o LowerAll(SubSeq(s, 2, Len(s)))

\* str.capitalize()
Capitalize(s) == IF s = "" THEN "" ELSE ToUpper(At(s, 1)) \o LowerAll(SubSeq(s, 2, Len(s)))

RECURSIVE Filter(_, _)
\* [e for e in seq if tag in e]
Filter(seq, tag) ==
    IF seq = <<>> THEN <<>>
    ELSE (IF Contains(Head(seq), tag) THEN <<Head(seq)>> ELSE <<>>) \o Filter(Tail(seq), tag)

(***************************************************************************)
(* YAML values as yaml.safe_load returns them: t is the Python type, s is  *)
(* str(value), items the members of a list or the (key, value) pairs of a  *)
(* dict in decode order.                                                   *)
(***************************************************************************)
StrV(s) == [t |-> "str", s |-> s, items |-> <<>>]
IntV(s) == [t |-> "int", s |-> s, items |-> <<>>]
ListV(s, items) == [t |-> "list", s |-> s, items |-> items]
DictV(s, items) == [t |-> "dict", s |-> s, items |-> items]

\* A loaded document: kind is "dict", "str", "none" (an empty document) or
\* "error" (yaml.YAMLError, s is its text); fields are the top-level
\* (key, value) pairs in decode order.
Doc(fields) == [kind |-> "dict", s |-> "", fields |-> fields]
ScalarDoc(s) == [kind |-> "str", s |-> s, fields |-> <<>>]
NoneDoc == [kind |-> "none", s |-> "", fields |-> <<>>]
YAMLError(s) == [kind |-> "error", s |-> s, fields |-> <<>>]

(***************************************************************************)
(* The header texts of the manifests the model feeds to the program.       *)
(***************************************************************************)
NameLine == "name: pdf-tools"
DescLine == "description: Short text"
HdrMinimal == NameLine \o "\n" \o DescLine
HdrNoName == DescLine
HdrNoDesc == NameLine
HdrNeither == "license: MIT"
HdrBadName == "name: My_Skill\n" \o DescLine
HdrErrorName == "name: MY-ERROR\n" \o DescLine
HdrNewlineName == "name: \"pdf-tools\\n\"\n" \o DescLine
HdrIntName == "name: 123\n" \o DescLine
HdrDescAtLimit == NameLine \o "\ndescription: " \o Rep("d", DescLimit)
HdrDescLong == NameLine \o "\ndescription: " \o Rep("d", MaxDescLen)
HdrIntDesc == NameLine \o "\ndescription: 42"
HdrLicenseMIT == HdrMinimal \o "\nlicense: MIT"
HdrLicenseOdd == HdrMinimal \o "\nlicense: WTFPL-INFO"
HdrMetaDict == HdrMinimal \o "\nmetadata:\n  author: ana\n  version: 2"
HdrMetaList == HdrMinimal \o "\nmetadata: [a, b]"
HdrToolsStr == HdrMinimal \o "\nallowed-tools: Read Grep"
HdrToolsList == HdrMinimal \o "\nallowed-tools: [Read, Grep]"
HdrToolsInt == HdrMinimal \o "\nallowed-tools: 7"
HdrAllBad == "name: Bad Name\nlicense: WTFPL\nmetadata: [a]\nallowed-tools: 7"
HdrScalar == "release notes"
HdrScalarName == "unnamed draft"
HdrUnclosed == "name: [pdf-tools"
HdrFirstLineIndented == "  " \o NameLine \o "\n" \o DescLine
HdrAllIndented == "  " \o NameLine \o "\n  " \o DescLine
HdrRestIndented == NameLine \o "\n  " \o DescLine

Headers ==
    { HdrMinimal, HdrNoName, HdrNoDesc, HdrNeither, HdrBadName, HdrErrorName,
      HdrNewlineName, HdrIntName, HdrDescAtLimit, HdrDescLong, HdrIntDesc,
      HdrLicenseMIT, HdrLicenseOdd, HdrMetaDict, HdrMetaList, HdrToolsStr,
      HdrToolsList, HdrToolsInt, HdrAllBad, HdrScalar, HdrScalarName,
      HdrUnclosed, HdrFirstLineIndented, HdrAllIndented, "" }

NameV == <<"name", StrV("pdf-tools")>>
DescV == <<"description", StrV("Short text")>>
MinimalFields == <<NameV, DescV>>

\* YAML ignores blank lines before the first token and white space after
\* the last one; the indentation of the first line counts.
Chomp(text) ==
    LET solid == {i \in 1..Len(text) : At(text, i) \notin Whitespace}
        start == {i \in 1..Len(text) : At(text, i) # "\n"}
    IN  IF solid = {} THEN ""
        ELSE SubSeq(text, CHOOSE i \in start : \A j \in start : i <= j,
                          CHOOSE i \in solid : \A j \in solid : i >= j)

\* yaml.safe_load on the header texts above.
SafeLoad(text) ==
    LET t == Chomp(text)
    IN  CASE t = "" -> NoneDoc
          [] t = HdrMinimal -> Doc(MinimalFields)
          [] t = HdrNoName -> Doc(<<DescV>>)
          [] t = HdrNoDesc -> Doc(<<NameV>>)
          [] t = HdrNeither -> Doc(<<<<"license", StrV("MIT")>>>>)
          [] t = HdrBadName -> Doc(<<<<"name", StrV("My_Skill")>>, DescV>>)
          [] t = HdrErrorName -> Doc(<<<<"name", StrV("MY-ERROR")>>, DescV>>)
          [] t = HdrNewlineName -> Doc(<<<<"name", StrV("pdf-tools\n")>>, DescV>>)
          [] t = HdrIntName -> Doc(<<<<"name", IntV("123")>>, DescV>>)
          [] t = HdrDescAtLimit -> Doc(<<NameV, <<"description", StrV(Rep("d", DescLimit))>>>>)
          [] t = HdrDescLong -> Doc(<<NameV, <<"description", StrV(Rep("d", MaxDescLen))>>>>)
          [] t = HdrIntDesc -> Doc(<<NameV, <<"description", IntV("42")>>>>)
          [] t = HdrLicenseMIT -> Doc(MinimalFields \o <<<<"license", StrV("MIT")>>>>)
          [] t = HdrLicenseOdd -> Doc(MinimalFields \o <<<<"license", StrV("WTFPL-INFO")>>>>)
          [] t = HdrMetaDict ->
                Doc(MinimalFields \o <<<<"metadata",
                    DictV("{'author': 'ana', 'version': 2}",
                          <<<<"author", StrV("ana")>>, <<"version", IntV("2")>>>>)>>>>)
          [] t = HdrMetaList ->
                Doc(MinimalFields \o <<<<"metadata", ListV("['a', 'b']", <<StrV("a"), StrV("b")>>)>>>>)
          [] t = HdrToolsStr -> Doc(MinimalFields \o <<<<"allowed-tools", StrV("Read Grep")>>>>)
          [] t = HdrToolsList ->
                Doc(MinimalFields \o <<<<"allowed-tools",
                    ListV("['Read', 'Grep']", <<StrV("Read"), StrV("Grep")>>)>>>>)
          [] t = HdrToolsInt -> Doc(MinimalFields \o <<<<"allowed-tools", IntV("7")>>>>)
          [] t = HdrAllBad ->
                Doc(<< <<"name", StrV("Bad Name")>>, <<"license", StrV("WTFPL")>>,
                       <<"metadata", ListV("['a']", <<StrV("a")>>)>>,
                       <<"allowed-tools", IntV("7")>> >>)
          [] t = HdrScalar -> ScalarDoc("release notes")
          [] t = HdrScalarName -> ScalarDoc("unnamed draft")
          [] t = HdrUnclosed ->
                YAMLError("while parsing a flow sequence\nexpected ',' or ']', but got '<stream end>'")
          [] t = HdrFirstLineIndented ->
                YAMLError("expected '<document start>', but found '<block mapping start>'")
          [] t = HdrAllIndented -> Doc(MinimalFields)
          [] t = HdrRestIndented -> YAMLError("mapping values are not allowed here")

(***************************************************************************)
(* Dictionary and container operations on a loaded document.               *)
(***************************************************************************)
Keys(fm) == {fm.fields[i][1] : i \in DOMAIN fm.fields}

\* key in frontmatter: dict membership, or substring search when the
\* document is a plain string (a None document raises instead, see Raises).
In(key, fm) ==
    CASE fm.kind = "dict" -> key \in Keys(fm)
      [] fm.kind = "str" -> Contains(fm.s, key)
      [] OTHER -> FALSE

\* frontmatter[key] of a dict that has the key
Get(fm, key) == LET i == CHOOSE i \in DOMAIN fm.fields : fm.fields[i][1] = key IN fm.fields[i][2]

\* len(value) is defined on strings, lists and dicts
Sized(v) == v.t \in {"str", "list", "dict"}
PyLen(v) == IF v.t = "str" THEN Len(v.s) ELSE Len(v.items)

Ok(findings) == [raised |-> "", findings |-> findings]
Raise(exc) == [raised |-> exc, findings |-> <<>>]

(***************************************************************************)
(* The findings validate_skill builds.                                     *)
(***************************************************************************)
MsgNotFound(skill_path) == "ERROR: SKILL.md not found in " \o skill_path
MsgCannotRead(e) == "ERROR: Cannot read SKILL.md: " \o e
MsgNoOpening == "ERROR: SKILL.md must start with '---' (YAML frontmatter)"
MsgNoClosing == "ERROR: SKILL.md must have closing '---' for frontmatter"
MsgInvalidYaml(e) == "ERROR: Invalid YAML frontmatter: " \o e
MsgNameRequired == "ERROR: 'name' field is required in frontmatter"
MsgNameFormat(name) == "WARNING: 'name' should be lowercase with hyphens only: " \o name
MsgDescRequired == "ERROR: 'description' field is required in frontmatter"
MsgDescLong(n) == "WARNING: 'description' is too long (" \o ToString(n) \o " chars, max 200 recommended)"
MsgLicense(v) == "INFO: License '" \o v \o "' is not a common SPDX identifier"
MsgMetadata == "WARNING: 'metadata' should be a dictionary"
MsgTools == "WARNING: 'allowed-tools' should be a list or space-separated string"
MsgNoContent == "WARNING: SKILL.md has no content after frontmatter"
MsgShort == "WARNING: SKILL.md content is very short (< 100 chars)"
MsgScripts == "INFO: 'scripts/' directory exists but is empty"
MsgReferences == "INFO: 'references/' directory exists but has no .md files"
MsgAssets == "INFO: 'assets/' directory exists but is empty"

valid_licenses == {"MIT", "Apache-2.0", "BSD-3-Clause", "GPL-3.0", "ISC"}

(***************************************************************************)
(* validate_skill, lines 14-44: the frontmatter extractor.  md is the      *)
(* SKILL.md entry of the skill root: kind "missing", "undecodable" (text   *)
(* holds the exception's message) or "text" (text holds the content).      *)
(***************************************************************************)
Failed(finding) ==
    [ok |-> FALSE, errors |-> <<finding>>, frontmatter |-> NoneDoc, markdown_content |-> ""]

\* the extractor with the closing delimiter checked before the opening one
Extract_ClosingFirst(skill_path, md) ==
    IF md.kind = "missing" THEN Failed(MsgNotFound(skill_path))
    ELSE IF md.kind = "undecodable" THEN Failed(MsgCannotRead(md.text))
    ELSE LET parts == Split(md.text, "---", MaxSplit)
         IN  IF Len(parts) < MinParts THEN Failed(MsgNoClosing)
             ELSE IF ~StartsWith(md.text, "---") THEN Failed(MsgNoOpening)
             ELSE LET loaded == SafeLoad(Strip(parts[2]))
                  IN  IF loaded.kind = "error" THEN Failed(MsgInvalidYaml(loaded.s))
                      ELSE [ok |-> TRUE, errors |-> <<>>, frontmatter |-> loaded,
                            markdown_content |-> Strip(parts[3])]

\* the extractor working on the trimmed content
Extract_Trimmed(skill_path, md) ==
    IF md.kind = "missing" THEN Failed(MsgNotFound(skill_path))
    ELSE IF md.kind = "undecodable" THEN Failed(MsgCannotRead(md.text))
    ELSE IF ~StartsWith(Strip(md.text), "---") THEN Failed(MsgNoOpening)
    ELSE LET parts == Split(Strip(md.text), "---", MaxSplit)
         IN  IF Len(parts) < MinParts THEN Failed(MsgNoClosing)
             ELSE LET loaded == SafeLoad(Strip(parts[2]))
                  IN  IF loaded.kind = "error" THEN Failed(MsgInvalidYaml(loaded.s))
                      ELSE [ok |-> TRUE, errors |-> <<>>, frontmatter |-> loaded,
                            markdown_content |-> Strip(parts[3])]

Extract(skill_path, md) ==
    IF md.kind = "missing" THEN Failed(MsgNotFound(skill_path))
    ELSE IF md.kind = "undecodable" THEN Failed(MsgCannotRead(md.text))
    ELSE IF ~StartsWith(md.text, "---") THEN Failed(MsgNoOpening)
    ELSE LET parts == Split(md.text, "---", MaxSplit)
         IN  IF Len(parts) < MinParts THEN Failed(MsgNoClosing)
             ELSE LET loaded == SafeLoad(Strip(parts[2]))
                  IN  IF loaded.kind = "error" THEN Failed(MsgInvalidYaml(loaded.s))
                      ELSE [ok |-> TRUE, errors |-> <<>>, frontmatter |-> loaded,
                            markdown_content |-> Strip(parts[3])]

(***************************************************************************)
(* validate_skill, lines 46-101: the rules.  Each yields the findings it   *)
(* appends, or the exception it lets escape.                               *)
(***************************************************************************)
\* `key in frontmatter` raises TypeError on None; frontmatter[key] raises
\* TypeError on a string.
Raises(fm, key) == fm.kind = "none" \/ (fm.kind = "str" /\ In(key, fm))

RuleName(fm) ==
    IF Raises(fm, "name") THEN Raise("TypeError")
    ELSE IF ~In("name", fm) THEN Ok(<<MsgNameRequired>>)
    ELSE LET name == Get(fm, "name")
         IN  IF name.t # "str" THEN Raise("TypeError")
             ELSE IF ~ReMatchName(name.s) THEN Ok(<<MsgNameFormat(name.s)>>)
             ELSE Ok(<<>>)

\* the length rule with the limit itself already too long
RuleDescription_AtLimit(fm) ==
    IF Raises(fm, "description") THEN Raise("TypeError")
    ELSE IF ~In("description", fm) THEN Ok(<<MsgDescRequired>>)
    ELSE LET desc == Get(fm, "description")
         IN  IF ~Sized(desc) THEN Raise("TypeError")
             ELSE IF PyLen(desc) >= DescLimit THEN Ok(<<MsgDescLong(PyLen(desc))>>)
             ELSE Ok(<<>>)

RuleDescription(fm) ==
    IF Raises(fm, "description") THEN Raise("TypeError")
    ELSE IF ~In("description", fm) THEN Ok(<<MsgDescRequired>>)
    ELSE LET desc == Get(fm, "description")
         IN  IF ~Sized(desc) THEN Raise("TypeError")
             ELSE IF PyLen(desc) > DescLimit THEN Ok(<<MsgDescLong(PyLen(desc))>>)
             ELSE Ok(<<>>)

RuleLicense(fm) ==
    IF Raises(fm, "license") THEN Raise("TypeError")
    ELSE IF In("license", fm)
         THEN LET license_val == Get(fm, "license")
              IN  IF ~(license_val.t = "str" /\ license_val.s \in valid_licenses)
                  THEN Ok(<<MsgLicense(license_val.s)>>)
                  ELSE Ok(<<>>)
         ELSE Ok(<<>>)

\* the metadata rule with its type test inverted
RuleMetadata_Inverted(fm) ==
    IF Raises(fm, "metadata") THEN Raise("TypeError")
    ELSE IF In("metadata", fm) /\ Get(fm, "metadata").t = "dict" THEN Ok(<<MsgMetadata>>)
    ELSE Ok(<<>>)

RuleMetadata(fm) ==
    IF Raises(fm, "metadata") THEN Raise("TypeError")
    ELSE IF In("metadata", fm) /\ Get(fm, "metadata").t # "dict" THEN Ok(<<MsgMetadata>>)
    ELSE Ok(<<>>)

RuleAllowedTools(fm) ==
    IF Raises(fm, "allowed-tools") THEN Raise("TypeError")
    ELSE IF In("allowed-tools", fm)
         THEN LET tools == Get(fm, "allowed-tools")
                  \* a string is split into a list first
                  isList == tools.t \in {"str", "list"}
              IN  IF ~isList THEN Ok(<<MsgTools>>) ELSE Ok(<<>>)
         ELSE Ok(<<>>)

\* the body rule with the second test taken only when the first fails
RuleBody_Elif(markdown_content) ==
    Ok(IF markdown_content = "" THEN <<MsgNoContent>>
       ELSE IF Len(markdown_content) < BodyLimit THEN <<MsgShort>> ELSE <<>>)

RuleBody(markdown_content) ==
    Ok((IF markdown_content = "" THEN <<MsgNoContent>> ELSE <<>>)
       \o (IF Len(markdown_content) < BodyLimit THEN <<MsgShort>> ELSE <<>>))

\* A directory entry of the skill root: kind "absent", "file" or "dir";
\* children are the names directly inside a directory.
Exists(entry) == entry.kind # "absent"

\* len(list(path.glob(pattern))) for the two patterns used; globbing a path
\* that is not a directory yields nothing.
GlobCount(entry, pattern) ==
    IF entry.kind # "dir" THEN 0
    ELSE IF pattern = "*" THEN Cardinality(entry.children)
    ELSE Cardinality({c \in entry.children : EndsWith(c, ".md")})

RuleScripts(entry) ==
    IF Exists(entry) /\ GlobCount(entry, "*") = 0 THEN Ok(<<MsgScripts>>) ELSE Ok(<<>>)

RuleReferences(entry) ==
    IF Exists(entry) /\ GlobCount(entry, "*.md") = 0 THEN Ok(<<MsgReferences>>) ELSE Ok(<<>>)

RuleAssets(entry) ==
    IF Exists(entry) /\ GlobCount(entry, "*") = 0 THEN Ok(<<MsgAssets>>) ELSE Ok(<<>>)

(***************************************************************************)
(* The inputs: command line, skill root and its entries.                   *)
(***************************************************************************)
Prog == "validate.py"
SkillDir == "my-skill"

BodyOf(n) == "\n" \o Rep("x", n) \o "\n"
Bodies == {BodyOf(n) : n \in {0, 1, BodyLimit - 1, BodyLimit, MaxBodyLen}}

Manifest(lead, header, body) == lead \o "---\n" \o header \o "\n---" \o body

Contents ==
    {Manifest("", h, b) : h \in Headers, b \in Bodies}
        \cup {Manifest(lead, HdrMinimal, BodyOf(MaxBodyLen)) : lead \in {" ", "\n"}}
        \cup {Manifest("", HdrMinimal, b) : b \in {"", "\nUse --- to split.\n"}}
        \cup {"", "# Skill\n", "---", "---\n" \o HdrMinimal \o "\n", "------" \o BodyOf(BodyLimit)}

Missing == [kind |-> "missing", text |-> ""]
Undecodable ==
    [kind |-> "undecodable",
     text |-> "'utf-8' codec can't decode byte 0xff in position 0: invalid start byte"]
Text(content) == [kind |-> "text", text |-> content]

Manifests == {Missing, Undecodable} \cup {Text(c) : c \in Contents}

DirNames == {"scripts", "references", "assets"}
ChildNames(d) ==
    CASE d = "scripts" -> {"run.sh"}
      [] d = "references" -> {"guide.md", "notes.txt"}
      [] d = "assets" -> {"logo.png"}
Absent == [kind |-> "absent", children |-> {}]
Entries(d) ==
    {Absent, [kind |-> "file", children |-> {}]}
        \cup {[kind |-> "dir", children |-> c] :
                 c \in {n \in SUBSET ChildNames(d) : Cardinality(n) <= MaxChildren}}
Layouts ==
    {[scripts |-> s, references |-> r, assets |-> a] :
        s \in Entries("scripts"), r \in Entries("references"), a \in Entries("assets")}
NoLayout == [d \in DirNames |-> Absent]

RuleNames ==
    {"name", "description", "license", "metadata", "allowed-tools", "body",
     "scripts", "references", "assets"}

VARIABLES
    argv,              \* sys.argv
    root,              \* what the path argument names: "missing", "file", "dir"
    skill_md,          \* the SKILL.md entry of the skill root
    layout,            \* the convention entries of the skill root
    pc,                \* position in main / validate_skill
    errors,            \* the finding list
    frontmatter,       \* the loaded frontmatter
    markdown_content,  \* the trimmed body
    evaluated,         \* the rules that have run to their end
    stdout,            \* the lines printed
    exception,         \* the uncaught exception, "" when none
    exit_code          \* the process exit code, -1 while running

vars ==
    <<argv, root, skill_md, layout, pc, errors, frontmatter, markdown_content,
      evaluated, stdout, exception, exit_code>>

inputs == <<argv, root, skill_md, layout>>

Init ==
    /\ \/ /\ argv = <<Prog>>
          /\ root = "missing" /\ skill_md = Missing /\ layout = NoLayout
       \/ /\ argv = <<Prog, SkillDir>>
          /\ root \in {"missing", "file"} /\ skill_md = Missing /\ layout = NoLayout
       \/ /\ argv = <<Prog, SkillDir>>
          /\ root = "dir" /\ skill_md \in Manifests /\ layout \in Layouts
    /\ pc = "main"
    /\ errors = <<>>
    /\ frontmatter = NoneDoc
    /\ markdown_content = ""
    /\ evaluated = {}
    /\ stdout = <<>>
    /\ exception = ""
    /\ exit_code = -1

Exit(code, lines) ==
    /\ pc' = "exit"
    /\ exit_code' = code
    /\ stdout' = stdout \o lines

\* an exception nobody catches: traceback on stderr, exit status 1
Uncaught(exc) ==
    /\ pc' = "exit"
    /\ exit_code' = 1
    /\ exception' = exc

(***************************************************************************)
(* main, lines 106-123.                                                    *)
(***************************************************************************)
MainUsage ==
    /\ pc = "main"
    /\ Len(argv) < 2
    /\ Exit(1, <<"Usage: python validate.py <skill-directory>">>)
    /\ UNCHANGED <<inputs, errors, frontmatter, markdown_content, evaluated, exception>>

MainPathMissing ==
    /\ pc = "main"
    /\ Len(argv) >= 2
    /\ root = "missing"
    /\ Exit(1, <<"ERROR: Path does not exist: " \o argv[2]>>)
    /\ UNCHANGED <<inputs, errors, frontmatter, markdown_content, evaluated, exception>>

MainNotDir ==
    /\ pc = "main"
    /\ Len(argv) >= 2
    /\ root = "file"
    /\ Exit(1, <<"ERROR: Path is not a directory: " \o argv[2]>>)
    /\ UNCHANGED <<inputs, errors, frontmatter, markdown_content, evaluated, exception>>

MainValidate ==
    /\ pc = "main"
    /\ Len(argv) >= 2
    /\ root = "dir"
    /\ stdout' = stdout \o <<"Validating skill: " \o argv[2], Rep("=", RuleWidth)>>
    /\ pc' = "extract"
    /\ UNCHANGED <<inputs, errors, frontmatter, markdown_content, evaluated, exception, exit_code>>

(***************************************************************************)
(* validate_skill as called from main.                                     *)
(***************************************************************************)
ExtractFrontmatter ==
    /\ pc = "extract"
    /\ LET r == Extract(argv[2], skill_md)
       IN  /\ errors' = r.errors
           /\ frontmatter' = r.frontmatter
           /\ markdown_content' = r.markdown_content
           /\ pc' = IF r.ok THEN "name" ELSE "report"
    /\ UNCHANGED <<inputs, evaluated, stdout, exception, exit_code>>

\* one rule: append its findings and go on, or let its exception end the run
Step(rule, outcome, next) ==
    /\ pc = rule
    /\ IF outcome.raised # ""
       THEN /\ Uncaught(outcome.raised)
            /\ UNCHANGED <<errors, evaluated>>
       ELSE /\ errors' = errors \o outcome.findings
            /\ evaluated' = evaluated \cup {rule}
            /\ pc' = next
            /\ UNCHANGED <<exception, exit_code>>
    /\ UNCHANGED <<inputs, frontmatter, markdown_content, stdout>>

CheckName == Step("name", RuleName(frontmatter), "description")
CheckDescription == Step("description", RuleDescription(frontmatter), "license")
CheckLicense == Step("license", RuleLicense(frontmatter), "metadata")
CheckMetadata == Step("metadata", RuleMetadata(frontmatter), "allowed-tools")
CheckAllowedTools == Step("allowed-tools", RuleAllowedTools(frontmatter), "body")
CheckBody == Step("body", RuleBody(markdown_content), "scripts")
CheckScripts == Step("scripts", RuleScripts(layout["scripts"]), "references")
CheckReferences == Step("references", RuleReferences(layout["references"]), "assets")
CheckAssets == Step("assets", RuleAssets(layout["assets"]), "report")

(***************************************************************************)
(* main, lines 125-177: the report.                                        *)
(***************************************************************************)
\* lines 125-133: the pass banner, then SKILL.md is read and loaded again,
\* this time without trimming the header
PassReload ==
    /\ pc = "report"
    /\ errors = <<>>
    /\ stdout' = stdout \o <<"[PASS] Skill passed all validation checks!", "\nSkill Summary:">>
    /\ LET parts == Split(skill_md.text, "---", MaxSplit)
           loaded == IF Len(parts) >= 2 THEN SafeLoad(parts[2]) ELSE NoneDoc
       IN  IF skill_md.kind # "text" THEN Uncaught("OSError") /\ UNCHANGED frontmatter
           ELSE IF Len(parts) < 2 THEN Uncaught("IndexError") /\ UNCHANGED frontmatter
           ELSE IF loaded.kind = "error" THEN Uncaught("YAMLError") /\ UNCHANGED frontmatter
           ELSE /\ frontmatter' = loaded
                /\ pc' = "summary"
                /\ UNCHANGED <<exception, exit_code>>
    /\ UNCHANGED <<inputs, errors, markdown_content, evaluated>>

FieldLine(label, fm, key) ==
    "   " \o label \o ": " \o (IF In(key, fm) THEN Get(fm, key).s ELSE "N/A")

MetadataLines(fm) ==
    IF In("metadata", fm)
    THEN LET items == Get(fm, "metadata").items
         IN  [i \in DOMAIN items |-> "   " \o Capitalize(items[i][1]) \o ": " \o items[i][2].s]
    ELSE <<>>

\* lines 144-145
ScriptCount(lay) == IF Exists(lay["scripts"]) THEN GlobCount(lay["scripts"], "*") ELSE 0
RefCount(lay) == IF Exists(lay["references"]) THEN GlobCount(lay["references"], "*.md") ELSE 0

\* lines 135-151; .get and .items need a dict
PassSummary ==
    /\ pc = "summary"
    /\ IF frontmatter.kind # "dict"
          \/ (In("metadata", frontmatter) /\ Get(frontmatter, "metadata").t # "dict")
       THEN /\ Uncaught("AttributeError")
            /\ UNCHANGED stdout
       ELSE /\ Exit(0, <<FieldLine("Name", frontmatter, "name"),
                          FieldLine("Description", frontmatter, "description")>>
                       \o (IF In("license", frontmatter)
                           THEN <<"   License: " \o Get(frontmatter, "license").s>> ELSE <<>>)
                       \o MetadataLines(frontmatter)
                       \o <<"\nResources:",
                            "   Scripts: " \o ToString(ScriptCount(layout)),
                            "   References: " \o ToString(RefCount(layout))>>)
            /\ UNCHANGED exception
    /\ UNCHANGED <<inputs, errors, frontmatter, markdown_content, evaluated>>

\* lines 155-157
Critical(errs) == Filter(errs, "ERROR")
Warnings(errs) == Filter(errs, "WARNING")
Info(errs) == Filter(errs, "INFO")

Indented(seq) == [i \in DOMAIN seq |-> "  " \o seq[i]]

TotalLine(errs) ==
    "Total: " \o ToString(Len(Critical(errs))) \o " errors, "
        \o ToString(Len(Warnings(errs))) \o " warnings, "
        \o ToString(Len(Info(errs))) \o " info"

\* the exit code with any finding counted as a failure
ExitCode_AnyFinding(errs) == IF errs # <<>> THEN 1 ELSE 0

\* line 177
ExitCode(errs) == IF Critical(errs) # <<>> THEN 1 ELSE 0

\* lines 152-177
ReportIssues ==
    /\ pc = "report"
    /\ errors # <<>>
    /\ Exit(ExitCode(errors),
            <<"Issues found:\n">>
              \o (IF Critical(errors) # <<>>
                  THEN <<"[CRITICAL ERRORS]:">> \o Indented(Critical(errors)) ELSE <<>>)
              \o (IF Warnings(errors) # <<>>
                  THEN <<"\n[WARNINGS]:">> \o Indented(Warnings(errors)) ELSE <<>>)
              \o (IF Info(errors) # <<>>
                  THEN <<"\n[INFO]:">> \o Indented(Info(errors)) ELSE <<>>)
              \o <<"\n" \o Rep("=", RuleWidth), TotalLine(errors)>>)
    /\ UNCHANGED <<inputs, errors, frontmatter, markdown_content, evaluated, exception>>

Next ==
    \/ MainUsage
    \/ MainPathMissing
    \/ MainNotDir
    \/ MainValidate
    \/ ExtractFrontmatter
    \/ CheckName
    \/ CheckDescription
    \/ CheckLicense
    \/ CheckMetadata
    \/ CheckAllowedTools
    \/ CheckBody
    \/ CheckScripts
    \/ CheckReferences
    \/ CheckAssets
    \/ PassReload
    \/ PassSummary
    \/ ReportIssues

Spec == Init /\ [][Next]_vars

(***************************************************************************)
(* Vocabulary of the properties.                                           *)
(***************************************************************************)
\* the severity tag of a finding: the text before its first colon
Severity(f) == SubSeq(f, 1, Find(f, ":", 1) - 1)

BySeverity(errs, tag) == SelectSeq(errs, LAMBDA f : Severity(f) = tag)

\* main has called validate_skill
Entered == pc # "main" /\ Len(stdout) >= 2

\* validate_skill has handed its list back to main
Returned == pc \in {"report", "summary"} \/ (pc = "exit" /\ Len(stdout) >= 3)

PassBanner == "[PASS] Skill passed all validation checks!"
IssuesBanner == "Issues found:\n"

\* the text between the opening delimiter and the next one, and what follows
CloseAt(text) == Find(text, "---", 4)
HeaderText(text) == SubSeq(text, 4, CloseAt(text) - 1)
BodyText(text) == SubSeq(text, CloseAt(text) + 3, Len(text))

\* the first extraction failure of a SKILL.md entry, in the documented order
ExtractionFailure(md) ==
    LET close == CloseAt(md.text)
    IN  CASE md.kind = "missing" -> "missing"
          [] md.kind = "undecodable" -> "unreadable"
          [] ~StartsWith(md.text, "---") -> "no_opening"
          [] close = 0 -> "no_closing"
          [] SafeLoad(Strip(SubSeq(md.text, 4, close - 1))).kind = "error" -> "invalid_yaml"
          [] OTHER -> "none"

FailureFinding(md) ==
    LET failure == ExtractionFailure(md)
    IN  CASE failure = "missing" -> MsgNotFound(SkillDir)
          [] failure = "unreadable" -> MsgCannotRead(md.text)
          [] failure = "no_opening" -> MsgNoOpening
          [] failure = "no_closing" -> MsgNoClosing
          [] failure = "invalid_yaml" -> MsgInvalidYaml(SafeLoad(Strip(HeaderText(md.text))).s)
          [] OTHER -> ""

Parsed == ExtractionFailure(skill_md) = "none"

\* C1 (as stated): a run that got a finding list from validate_skill exits 0
\* exactly when no finding of the list has severity ERROR.
C1_ExitZeroIffNoError ==
    (pc = "exit" /\ Returned) =>
        (exit_code = 0 <=> BySeverity(errors, "ERROR") = <<>>)

\* C2: an extraction failure yields exactly one finding, of severity ERROR,
\* naming the first failing condition in the order missing, unreadable, no
\* opening delimiter, no closing delimiter, invalid YAML; no rule has run.
C2_ExtractorShortCircuits ==
    (Entered /\ pc # "extract" /\ ~Parsed) =>
        /\ errors = <<FailureFinding(skill_md)>>
        /\ Severity(errors[1]) = "ERROR"
        /\ evaluated = {}

\* a manifest with neither delimiter is reported as lacking the opening one
C2_Witness ==
    /\ pc = "exit"
    /\ skill_md = Text("# Skill\n")
    /\ errors = <<MsgNoOpening>>
    /\ exit_code = 1

\* C3 (as stated): once the frontmatter is parsed, every run evaluates all
\* nine rules.
C3_AllRulesRun ==
    (pc = "exit" /\ Entered /\ Parsed) => evaluated = RuleNames

Section(title, members) == IF members = <<>> THEN <<>> ELSE <<title>> \o Indented(members)

\* C4 (as stated): the report lists every finding once, under the header of
\* its own severity, in list order, and the three totals add up to the
\* number of findings.
C4_GroupsPartition ==
    (pc = "exit" /\ Returned /\ errors # <<>>) =>
        LET e == BySeverity(errors, "ERROR")
            w == BySeverity(errors, "WARNING")
            i == BySeverity(errors, "INFO")
        IN  /\ Len(e) + Len(w) + Len(i) = Len(errors)
            /\ SubSeq(stdout, 3, Len(stdout)) =
                    <<IssuesBanner>>
                      \o Section("[CRITICAL ERRORS]:", e)
                      \o Section("\n[WARNINGS]:", w)
                      \o Section("\n[INFO]:", i)
                      \o <<"\n" \o Rep("=", RuleWidth),
                           "Total: " \o ToString(Len(e)) \o " errors, " \o ToString(Len(w))
                              \o " warnings, " \o ToString(Len(i)) \o " info">>

NoOpeningReported == errors = <<MsgNoOpening>>

\* C5 (as stated): the missing-frontmatter error is reported exactly when
\* the trimmed content does not begin with the delimiter.
C5_TrimmedOpening ==
    (Entered /\ pc # "extract" /\ skill_md.kind = "text") =>
        (NoOpeningReported <=> ~StartsWith(Strip(skill_md.text), "---"))

\* C5 (amended): the missing-frontmatter error is reported exactly when the
\* content as read, untrimmed, does not begin with the delimiter.
C5_RawOpening ==
    (Entered /\ pc # "extract" /\ skill_md.kind = "text") =>
        (NoOpeningReported <=> ~StartsWith(skill_md.text, "---"))

\* white space before an otherwise valid frontmatter block is rejected
C5_Witness ==
    /\ pc = "exit"
    /\ skill_md = Text(Manifest("\n", HdrMinimal, BodyOf(MaxBodyLen)))
    /\ NoOpeningReported
    /\ exit_code = 1

\* the frontmatter and the trimmed body as the manifest text gives them
InputDoc == SafeLoad(Strip(HeaderText(skill_md.text)))
TrimmedBody == Strip(BodyText(skill_md.text))

ValidName(v) ==
    v.t = "str" /\ Len(v.s) >= 1 /\ \A i \in 1..Len(v.s) : At(v.s, i) \in NameChars

\* a well-formed manifest with a valid name, a valid description and nothing
\* else, in a skill root without convention entries
MinimalInput ==
    /\ \A d \in DirNames : layout[d].kind = "absent"
    /\ skill_md.kind = "text"
    /\ Parsed
    /\ LET doc == InputDoc
       IN  /\ doc.kind = "dict"
           /\ Keys(doc) = {"name", "description"}
           /\ ValidName(Get(doc, "name"))
           /\ Get(doc, "description").t = "str"
           /\ Len(Get(doc, "description").s) <= DescLimit

ExpectedBodyFindings(trimmed) ==
    IF trimmed = "" THEN <<MsgNoContent, MsgShort>>
    ELSE IF Len(trimmed) < BodyLimit THEN <<MsgShort>>
    ELSE <<>>

BodyFindings(errs) == SelectSeq(errs, LAMBDA f : f \in {MsgNoContent, MsgShort})

\* C7: once the body rules have run, the body findings are the no-content
\* warning followed by the very-short warning for an empty trimmed body, the
\* very-short warning alone for a trimmed body of 1 to 99 characters, and
\* none for 100 characters or more.
C7_BodyRules ==
    "body" \in evaluated =>
        /\ BodyFindings(errors) = ExpectedBodyFindings(TrimmedBody)
        /\ \A i \in DOMAIN BodyFindings(errors) : Severity(BodyFindings(errors)[i]) = "WARNING"

C7_Witness ==
    /\ pc = "exit"
    /\ "body" \in evaluated
    /\ TrimmedBody = ""
    /\ BodyFindings(errors) = <<MsgNoContent, MsgShort>>

DescFindings(errs) == SelectSeq(errs, LAMBDA f : Contains(f, "'description'"))

HasTextDescription ==
    /\ frontmatter.kind = "dict"
    /\ In("description", frontmatter)
    /\ Get(frontmatter, "description").t = "str"

\* C8: once the description rule has run on a description of L characters,
\* the findings about the description are one WARNING carrying L when
\* L > 200 and none when L <= 200.
C8_DescriptionBoundary ==
    ("description" \in evaluated /\ HasTextDescription) =>
        LET L == Len(Get(frontmatter, "description").s)
            found == DescFindings(errors)
        IN  IF L > DescLimit
            THEN /\ Len(found) = 1
                 /\ Severity(found[1]) = "WARNING"
                 /\ Contains(found[1], "(" \o ToString(L) \o " chars")
            ELSE found = <<>>

C8_Witness ==
    /\ pc = "exit"
    /\ "description" \in evaluated
    /\ HasTextDescription
    /\ Len(Get(frontmatter, "description").s) > DescLimit
    /\ Len(DescFindings(errors)) = 1
    /\ exit_code = 0

DirFinding(d) ==
    CASE d = "scripts" -> MsgScripts
      [] d = "references" -> MsgReferences
      [] d = "assets" -> MsgAssets

Qualifying(d, entry) ==
    IF d = "references" THEN {c \in entry.children : EndsWith(c, ".md")} ELSE entry.children

\* C9 (as stated): once the directory rules have run, each convention name
\* has one INFO finding when it is a directory without qualifying entries,
\* and none otherwise.
C9_DirectoryRules ==
    "assets" \in evaluated =>
        \A d \in DirNames :
            LET found == SelectSeq(errors, LAMBDA f : f = DirFinding(d))
            IN  /\ Len(found) = (IF layout[d].kind = "dir" /\ Qualifying(d, layout[d]) = {}
                                 THEN 1 ELSE 0)
                /\ Severity(DirFinding(d)) = "INFO"

\* C10: the pass branch is entered only with an empty finding list, and the
\* frontmatter its summary prints is a mapping that has 'name' and
\* 'description' and whose 'metadata', when present, is a mapping.
C10_SummaryMetadataIsMapping ==
    /\ (Len(stdout) >= 3 /\ stdout[3] = PassBanner) => errors = <<>>
    /\ pc = "summary" =>
          /\ frontmatter.kind = "dict"
          /\ In("name", frontmatter)
          /\ In("description", frontmatter)
          /\ In("metadata", frontmatter) => Get(frontmatter, "metadata").t = "dict"
    /\ exception # "AttributeError"

C10_Witness ==
    /\ pc = "summary"
    /\ In("metadata", frontmatter)
    /\ Get(frontmatter, "metadata").t = "dict"

====
